---- MODULE Spec2Model ----
(***************************************************************************)
(* Model of vrepsim's scene-object, array and collection wrappers          *)
(* (vrepsim/objects.py, vrepsim/collections.py).                           *)
(*                                                                         *)
(* Every method is an operator that returns a result record                *)
(*   [exc, why, calls, ret, handle]                                        *)
(* exc/why : the exception raised ("none" when the method returns),        *)
(* calls   : the remote calls issued, in order,                            *)
(* ret     : <<value>> for a returned value, <<>> for None / no value,     *)
(* handle  : the wrapper's _handle after the call.                         *)
(* One action per method applies the operator to a wrapper of the program  *)
(* and records the call in the variable last.                              *)
(***************************************************************************)
EXTENDS Integers, Sequences, FiniteSets

\* ------------------------------------------------------------------ bounds
\* number of wrappers the program holds at the same time
MaxWrappers == 2
\* remote status codes answered by the server are 0..MaxStatus
MaxStatus == 2
\* longest velocity sequence passed to MotorArray.set_velocities
MaxVelocities == 3
\* image resolutions answered by the server are 1..MaxWidth x 1..MaxHeight
MaxWidth == 3
MaxHeight == 2
\* raw pixel values advance by 1..MaxStep from one buffer position to the next
MaxStep == 2

\* ------------------------------------------------- remote API constants
simx_return_ok == 0
simx_return_novalue_flag == 1

StatusCodes == 0..MaxStatus

\* ---------------------------------------------------------------- state
VARIABLES
    connected,    \* client_id is not None
    sim_started,  \* what vrep_sim.is_sim_started() answers
    objs,         \* stand-alone wrappers, keyed by wrapper id
    motors,       \* MotorArray._motors
    sensors,      \* ProximitySensorArray._sensors
    coll,         \* the Collection wrapper, <<>> when none was constructed
    removed,      \* history: ids of the wrappers on which remove() succeeded
    last          \* the latest call: operation, arguments and result

vars == <<connected, sim_started, objs, motors, sensors, coll, removed, last>>

\* ----------------------------------------------------------- wrappers
\* the classes of the stand-alone wrappers, one slot each; Dummy adds nothing
\* to SceneObject (its __init__ only calls SceneObject.__init__), so a Dummy is
\* a wrapper of the slot "SceneObject"
Classes == <<"SceneObject", "Motor", "ProximitySensor", "VisionSensor">>

ObjIds == 1..Len(Classes)
ClassOf(o) == Classes[o]

MotorId(i) == 10 + i
SensorId(i) == 20 + i

MotorIds == {MotorId(i) : i \in 1..Len(motors)}
SensorIds == {SensorId(i) : i \in 1..Len(sensors)}

\* every SceneObject the program holds
SceneIds == DOMAIN objs \cup MotorIds \cup SensorIds

W(o) == IF o \in DOMAIN objs THEN objs[o]
        ELSE IF o \in MotorIds THEN motors[o - 10]
        ELSE sensors[o - 20]

IsMotor(o) == o \in MotorIds \/ (o \in DOMAIN objs /\ ClassOf(o) = "Motor")
IsProximitySensor(o) ==
    o \in SensorIds \/ (o \in DOMAIN objs /\ ClassOf(o) = "ProximitySensor")
IsVisionSensor(o) == o \in DOMAIN objs /\ ClassOf(o) = "VisionSensor"

NumWrappers ==
    Cardinality(DOMAIN objs) + Len(motors) + Len(sensors) + Len(coll)

\* ------------------------------------------------------------- server
\* names given to constructors; "" is the empty name, "ghost" is a name the
\* scene does not hold
Names == {"", "a", "ghost"}
SceneNames == {"a"}
SceneHandle(name) == IF name = "a" THEN 1 ELSE 2

\* what the server can answer to a handle lookup of the name
LookupCodes(name) ==
    IF name \in SceneNames THEN StatusCodes
    ELSE StatusCodes \ {simx_return_ok}

\* ------------------------------------------------------------ results
Call(fn, h, name, rel, res) ==
    [fn |-> fn, h |-> h, name |-> name, rel |-> rel, res |-> res]

Raise(exc, why, calls, self) ==
    [exc |-> exc, why |-> why, calls |-> calls, ret |-> <<>>,
     self |-> self]

Return(ret, calls, self) ==
    [exc |-> "none", why |-> "", calls |-> calls, ret |-> ret,
     self |-> self]

\* self of a static method, of the method of an array and of a wrapper whose
\* __init__ has not returned
NoSelf == [name |-> "", handle |-> -1]

\* the remote query behind vrep_sim.is_sim_started()
SimQuery == Call("is_sim_started", -1, "", -1, simx_return_ok)

\* ---------------------------------------------------------- SceneObject
\* SceneObject._get_handle without the check of the status code
SceneObject_get_handle_unchecked(name, conn, res) ==
    IF ~conn THEN Raise("ConnectionError", "not connected", <<>>, NoSelf)
    ELSE Return(<<SceneHandle(name)>>,
                <<Call("simxGetObjectHandle", -1, name, -1, res)>>, NoSelf)

\* SceneObject._get_handle
SceneObject_get_handle(name, conn, res) ==
    IF ~conn THEN Raise("ConnectionError", "not connected", <<>>, NoSelf)
    ELSE LET c == Call("simxGetObjectHandle", -1, name, -1, res) IN
         IF res # simx_return_ok
         THEN Raise("ServerError", "server", <<c>>, NoSelf)
         ELSE Return(<<SceneHandle(name)>>, <<c>>, NoSelf)

\* SceneObject.__init__ ; ret holds the constructed wrapper
SceneObject_init(name, conn, res) ==
    IF name # ""
    THEN LET r == SceneObject_get_handle(name, conn, res) IN
         IF r.exc # "none" THEN r
         ELSE LET self == [name |-> name, handle |-> r.ret[1]] IN
              Return(<<self>>, r.calls, self)
    ELSE LET self == [name |-> "_Unnamed_", handle |-> -1] IN
         Return(<<self>>, <<>>, self)

\* SceneObject.handle
SceneObject_handle(w) ==
    IF w.handle >= 0 THEN Return(<<w.handle>>, <<>>, w)
    ELSE IF w.handle = -1 THEN Return(<<>>, <<>>, w)
    ELSE IF w.handle = -2
    THEN Raise("RuntimeError", "object removed", <<>>, w)
    ELSE Raise("RuntimeError", "invalid handle", <<>>, w)

\* SceneObject.name without the check of the removed state
SceneObject_name_unchecked(w) ==
    IF w.name # "_Unnamed_" THEN Return(<<w.name>>, <<>>, w)
    ELSE Return(<<>>, <<>>, w)

\* SceneObject.name
SceneObject_name(w) ==
    IF w.handle = -2
    THEN Raise("RuntimeError", "object removed", <<>>, w)
    ELSE IF w.name # "_Unnamed_" THEN Return(<<w.name>>, <<>>, w)
    ELSE Return(<<>>, <<>>, w)

\* the values given as `relative` / `parent`
\*   t = "none": None, "int": the integer v, "obj": the wrapper with id v,
\*   "other": a value of any other type
RelNone == [t |-> "none", v |-> 0]
RelInt(v) == [t |-> "int", v |-> v]
RelObj(o) == [t |-> "obj", v |-> o]
RelOther == [t |-> "other", v |-> 0]

\* SceneObject.get_handle reading scene_obj._handle instead of the handle
\* property, so that the handle of a removed wrapper is passed on
get_handle_raw(scene_obj) ==
    IF scene_obj.t = "none" THEN Return(<<-1>>, <<>>, NoSelf)
    ELSE IF scene_obj.t = "int" THEN Return(<<scene_obj.v>>, <<>>, NoSelf)
    ELSE IF scene_obj.t = "obj"
    THEN IF W(scene_obj.v).handle = -1
         THEN Raise("ValueError", "invalid handle", <<>>, NoSelf)
         ELSE Return(<<W(scene_obj.v).handle>>, <<>>, NoSelf)
    ELSE Raise("TypeError", "type not supported", <<>>, NoSelf)

\* SceneObject.get_handle (static)
get_handle(scene_obj) ==
    IF scene_obj.t = "none" THEN Return(<<-1>>, <<>>, NoSelf)
    ELSE IF scene_obj.t = "int" THEN Return(<<scene_obj.v>>, <<>>, NoSelf)
    ELSE IF scene_obj.t = "obj"
    THEN LET h == SceneObject_handle(W(scene_obj.v)) IN
         IF h.exc # "none" THEN h
         ELSE IF h.ret = <<>>
         THEN Raise("ValueError", "invalid handle", <<>>, NoSelf)
         ELSE Return(h.ret, <<>>, NoSelf)
    ELSE Raise("TypeError", "type not supported", <<>>, NoSelf)

ASSOC_SCRIPT_TYPES == {"child", "customization"}

\* SceneObject.call_script_func reporting an unsupported script type as
\* RuntimeError
call_script_func_runtime_error(w, script_type, conn, res) ==
    IF script_type \notin ASSOC_SCRIPT_TYPES
    THEN Raise("RuntimeError", "script type", <<>>, w)
    ELSE IF w.handle = -2
    THEN Raise("RuntimeError", "object removed", <<>>, w)
    ELSE IF ~conn
    THEN Raise("ConnectionError", "not connected", <<>>, w)
    ELSE LET c == Call("simxCallScriptFunction", -1, w.name, -1, res) IN
         IF res # simx_return_ok
         THEN Raise("ServerError", "server", <<c>>, w)
         ELSE Return(<<"rets">>, <<c>>, w)

\* SceneObject.call_script_func
call_script_func(w, script_type, conn, res) ==
    IF script_type \notin ASSOC_SCRIPT_TYPES
    THEN Raise("ValueError", "script type", <<>>, w)
    ELSE IF w.handle = -2
    THEN Raise("RuntimeError", "object removed", <<>>, w)
    ELSE IF ~conn
    THEN Raise("ConnectionError", "not connected", <<>>, w)
    ELSE LET c == Call("simxCallScriptFunction", -1, w.name, -1, res) IN
         IF res # simx_return_ok
         THEN Raise("ServerError", "server", <<c>>, w)
         ELSE Return(<<"rets">>, <<c>>, w)

\* the status-code check that follows a remote call c: ServerError unless the
\* call answered simx_return_ok
Checked(c, ret, self) ==
    IF c.res # simx_return_ok
    THEN Raise("ServerError", "server", <<c>>, self)
    ELSE Return(ret, <<c>>, self)

\* SceneObject.copy_paste storing the handle of the copy in the wrapper
copy_paste_rebinds(w, conn, res, newh) ==
    IF w.handle = -2
    THEN Raise("RuntimeError", "object removed", <<>>, w)
    ELSE IF ~conn
    THEN Raise("ConnectionError", "not connected", <<>>, w)
    ELSE Checked(Call("simxCopyPasteObjects", w.handle, "", -1, res),
                 <<newh>>, [w EXCEPT !.handle = newh])

\* SceneObject.copy_paste ; newh is the handle of the copy the server answers
copy_paste(w, conn, res, newh) ==
    IF w.handle = -2
    THEN Raise("RuntimeError", "object removed", <<>>, w)
    ELSE IF ~conn
    THEN Raise("ConnectionError", "not connected", <<>>, w)
    ELSE Checked(Call("simxCopyPasteObjects", w.handle, "", -1, res),
                 <<newh>>, w)

\* the six bounding box limits, in the order of BBOX_LIMITS
BBOX_LIMITS == <<"x_min", "x_max", "y_min", "y_max", "z_min", "z_max">>

\* the loop of get_bbox_limits from limit i on: ress[i] is the status code of
\* the i-th query, lims[i] its value; acc holds the calls issued so far
RECURSIVE bbox_loop(_, _, _, _, _)
bbox_loop(w, i, ress, lims, acc) ==
    IF i > Len(BBOX_LIMITS)
    THEN Return(<<[k \in 1..3 |-> <<lims[2 * k - 1], lims[2 * k]>>]>>, acc,
                w)
    ELSE LET c == Call("simxGetObjectFloatParameter", w.handle,
                       BBOX_LIMITS[i], -1, ress[i]) IN
         IF ress[i] # simx_return_ok
         THEN Raise("ServerError", "server", Append(acc, c), w)
         ELSE bbox_loop(w, i + 1, ress, lims, Append(acc, c))

\* SceneObject.get_bbox_limits
get_bbox_limits(w, conn, ress, lims) ==
    IF w.handle = -2
    THEN Raise("RuntimeError", "object removed", <<>>, w)
    ELSE IF ~conn
    THEN Raise("ConnectionError", "not connected", <<>>, w)
    ELSE bbox_loop(w, 1, ress, lims, <<>>)

\* the tail shared by the methods that take `relative` / `parent`: resolve it
\* with get_handle, then issue the remote call fn; pre holds the calls issued
\* before (the simulation query of the setters)
WithRelative(w, fn, relative, res, ret, pre) ==
    LET rh == get_handle(relative) IN
    IF rh.exc # "none" THEN Raise(rh.exc, rh.why, pre, w)
    ELSE LET c == Call(fn, w.handle, "", rh.ret[1], res) IN
         IF res # simx_return_ok
         THEN Raise("ServerError", "server", Append(pre, c), w)
         ELSE Return(ret, Append(pre, c), w)

\* SceneObject.get_orientation
get_orientation(w, relative, conn, res, payload) ==
    IF w.handle = -2
    THEN Raise("RuntimeError", "object removed", <<>>, w)
    ELSE IF ~conn
    THEN Raise("ConnectionError", "not connected", <<>>, w)
    ELSE WithRelative(w, "simxGetObjectOrientation", relative, res,
                      <<payload>>, <<>>)

\* SceneObject.set_orientation querying the simulation state before it checks
\* the connection
set_orientation_gate_first(w, relative, allow_in_sim, conn, sim, res) ==
    IF w.handle = -2
    THEN Raise("RuntimeError", "object removed", <<>>, w)
    ELSE IF ~allow_in_sim /\ sim
    THEN Raise("SimulationError", "simulation", <<SimQuery>>, w)
    ELSE IF ~conn
    THEN Raise("ConnectionError", "not connected",
               IF allow_in_sim THEN <<>> ELSE <<SimQuery>>, w)
    ELSE WithRelative(w, "simxSetObjectOrientation", relative, res, <<>>,
                      IF allow_in_sim THEN <<>> ELSE <<SimQuery>>)

\* SceneObject.set_orientation
set_orientation(w, relative, allow_in_sim, conn, sim, res) ==
    IF w.handle = -2
    THEN Raise("RuntimeError", "object removed", <<>>, w)
    ELSE IF ~conn
    THEN Raise("ConnectionError", "not connected", <<>>, w)
    ELSE IF ~allow_in_sim /\ sim
    THEN Raise("SimulationError", "simulation", <<SimQuery>>, w)
    ELSE WithRelative(w, "simxSetObjectOrientation", relative, res, <<>>,
                      IF allow_in_sim THEN <<>> ELSE <<SimQuery>>)

\* SceneObject.get_parent_handle
get_parent_handle(w, conn, res, payload) ==
    IF w.handle = -2
    THEN Raise("RuntimeError", "object removed", <<>>, w)
    ELSE IF ~conn
    THEN Raise("ConnectionError", "not connected", <<>>, w)
    ELSE Checked(Call("simxGetObjectParent", w.handle, "", -1, res),
                 <<payload>>, w)

\* SceneObject.set_parent
set_parent(w, parent, conn, res) ==
    IF w.handle = -2
    THEN Raise("RuntimeError", "object removed", <<>>, w)
    ELSE IF ~conn
    THEN Raise("ConnectionError", "not connected", <<>>, w)
    ELSE WithRelative(w, "simxSetObjectParent", parent, res, <<>>, <<>>)

\* SceneObject.get_position
get_position(w, relative, conn, res, payload) ==
    IF w.handle = -2
    THEN Raise("RuntimeError", "object removed", <<>>, w)
    ELSE IF ~conn
    THEN Raise("ConnectionError", "not connected", <<>>, w)
    ELSE WithRelative(w, "simxGetObjectPosition", relative, res,
                      <<payload>>, <<>>)

\* SceneObject.set_position checking the simulation state even with
\* allow_in_sim
set_position_always_gated(w, relative, allow_in_sim, conn, sim, res) ==
    IF w.handle = -2
    THEN Raise("RuntimeError", "object removed", <<>>, w)
    ELSE IF ~conn
    THEN Raise("ConnectionError", "not connected", <<>>, w)
    ELSE IF sim
    THEN Raise("SimulationError", "simulation", <<SimQuery>>, w)
    ELSE WithRelative(w, "simxSetObjectPosition", relative, res, <<>>,
                      <<SimQuery>>)

\* SceneObject.set_position
set_position(w, relative, allow_in_sim, conn, sim, res) ==
    IF w.handle = -2
    THEN Raise("RuntimeError", "object removed", <<>>, w)
    ELSE IF ~conn
    THEN Raise("ConnectionError", "not connected", <<>>, w)
    ELSE IF ~allow_in_sim /\ sim
    THEN Raise("SimulationError", "simulation", <<SimQuery>>, w)
    ELSE WithRelative(w, "simxSetObjectPosition", relative, res, <<>>,
                      IF allow_in_sim THEN <<>> ELSE <<SimQuery>>)

\* SceneObject.remove marking the object removed before it checks the status
\* code
remove_eager(w, conn, res) ==
    IF w.handle = -2
    THEN Raise("RuntimeError", "already removed", <<>>, w)
    ELSE IF ~conn
    THEN Raise("ConnectionError", "not connected", <<>>, w)
    ELSE Checked(Call("simxRemoveObject", w.handle, "", -1, res), <<>>,
                 [w EXCEPT !.handle = -2])

\* SceneObject.remove without the check of the status code
remove_unchecked(w, conn, res) ==
    IF w.handle = -2
    THEN Raise("RuntimeError", "already removed", <<>>, w)
    ELSE IF ~conn
    THEN Raise("ConnectionError", "not connected", <<>>, w)
    ELSE Return(<<>>, <<Call("simxRemoveObject", w.handle, "", -1, res)>>,
                [w EXCEPT !.handle = -2])

\* SceneObject.remove
remove(w, conn, res) ==
    IF w.handle = -2
    THEN Raise("RuntimeError", "already removed", <<>>, w)
    ELSE IF ~conn
    THEN Raise("ConnectionError", "not connected", <<>>, w)
    ELSE LET c == Call("simxRemoveObject", w.handle, "", -1, res) IN
         IF res # simx_return_ok
         THEN Raise("ServerError", "server", <<c>>, w)
         ELSE Return(<<>>, <<c>>, [w EXCEPT !.handle = -2])

\* ---------------------------------------------------------------- Motor
\* Motor.set_velocity
set_velocity(w, velocity, conn, res) ==
    IF w.handle = -2
    THEN Raise("RuntimeError", "object removed", <<>>, w)
    ELSE IF ~conn
    THEN Raise("ConnectionError", "not connected", <<>>, w)
    ELSE Checked(Call("simxSetJointTargetVelocity", w.handle, "", velocity,
                      res), <<>>, w)

\* ------------------------------------------------------- ProximitySensor
\* distances are counted in units of 1/DepthUnits: DepthUnits stands for 1.0
DepthUnits == 4

\* ProximitySensor.get_inv_distance treating 'no value' as a server error
get_inv_distance_strict(w, conn, res, detect, depth) ==
    IF w.handle = -2
    THEN Raise("RuntimeError", "object removed", <<>>, w)
    ELSE IF ~conn
    THEN Raise("ConnectionError", "not connected", <<>>, w)
    ELSE LET c == Call("simxReadProximitySensor", w.handle, "", -1, res) IN
         IF res = simx_return_ok
         THEN IF detect THEN Return(<<DepthUnits - depth>>, <<c>>, w)
              ELSE Return(<<0>>, <<c>>, w)
         ELSE Raise("ServerError", "server", <<c>>, w)

\* ProximitySensor.get_inv_distance ; detect and depth (point[2]) are the
\* server's answer
get_inv_distance(w, conn, res, detect, depth) ==
    IF w.handle = -2
    THEN Raise("RuntimeError", "object removed", <<>>, w)
    ELSE IF ~conn
    THEN Raise("ConnectionError", "not connected", <<>>, w)
    ELSE LET c == Call("simxReadProximitySensor", w.handle, "", -1, res) IN
         IF res = simx_return_ok
         THEN IF detect THEN Return(<<DepthUnits - depth>>, <<c>>, w)
              ELSE Return(<<0>>, <<c>>, w)
         ELSE IF res = simx_return_novalue_flag
         THEN Return(<<0>>, <<c>>, w)
         ELSE Raise("ServerError", "server", <<c>>, w)

\* ---------------------------------------------------------- VisionSensor
Min(a, b) == IF a < b THEN a ELSE b

\* the list slice s[a:b] (0-based, end exclusive, clipped to the list)
Slice(s, a, b) == [i \in 1..(Min(b, Len(s)) - a) |-> s[a + i]]

\* list(range(0, stop, step)) for step > 0
Range0(stop, step) ==
    [k \in 1..((stop + step - 1) \div step) |-> (k - 1) * step]

\* list(reversed(s))
Reversed(s) == [i \in 1..Len(s) |-> s[Len(s) + 1 - i]]

\* VisionSensor.get_image keeping the bottom-up row order of the raw buffer
get_image_bottom_up(w, grayscale, conn, res, resolution, image) ==
    IF w.handle = -2
    THEN Raise("RuntimeError", "object removed", <<>>, w)
    ELSE IF ~conn
    THEN Raise("ConnectionError", "not connected", <<>>, w)
    ELSE LET c == Call("simxGetVisionSensorImage", w.handle, "",
                       IF grayscale THEN 1 ELSE 0, res) IN
         IF res # simx_return_ok
         THEN Raise("ServerError", "server", <<c>>, w)
         ELSE LET unsigned == [i \in 1..Len(image) |->
                                 IF image[i] >= 0 THEN image[i]
                                 ELSE image[i] + 256]
                  width == resolution[1]
                  n_pixels == width * resolution[2]
                  starts == Range0(3 * n_pixels, 3)
                  pixels == IF ~grayscale
                            THEN [k \in 1..Len(starts) |->
                                    Slice(unsigned, starts[k], starts[k] + 3)]
                            ELSE unsigned
                  rows == Range0(n_pixels, width)
              IN Return(<<[r \in 1..Len(rows) |->
                             Slice(pixels, rows[r], rows[r] + width)]>>,
                        <<c>>, w)

\* VisionSensor.get_image ; resolution = <<width, height>> and image are the
\* server's answer
get_image(w, grayscale, conn, res, resolution, image) ==
    IF w.handle = -2
    THEN Raise("RuntimeError", "object removed", <<>>, w)
    ELSE IF ~conn
    THEN Raise("ConnectionError", "not connected", <<>>, w)
    ELSE LET c == Call("simxGetVisionSensorImage", w.handle, "",
                       IF grayscale THEN 1 ELSE 0, res) IN
         IF res # simx_return_ok
         THEN Raise("ServerError", "server", <<c>>, w)
         ELSE LET unsigned == [i \in 1..Len(image) |->
                                 IF image[i] >= 0 THEN image[i]
                                 ELSE image[i] + 256]
                  width == resolution[1]
                  height == resolution[2]
                  n_pixels == width * height
                  starts == Range0(3 * n_pixels, 3)
                  pixels == IF ~grayscale
                            THEN [k \in 1..Len(starts) |->
                                    Slice(unsigned, starts[k], starts[k] + 3)]
                            ELSE unsigned
              IN IF width = 0
                 THEN Raise("ValueError", "range step", <<c>>, w)
                 ELSE LET rows == Reversed(Range0(n_pixels, width)) IN
                      Return(<<[r \in 1..Len(rows) |->
                                  Slice(pixels, rows[r], rows[r] + width)]>>,
                             <<c>>, w)

\* --------------------------------------------------------------- arrays
\* the list comprehension [Motor(name, vrep_sim) for name in motor_names] (and
\* the one of ProximitySensorArray) from element i on: each element is
\* constructed by SceneObject.__init__, the first failure ends the loop
RECURSIVE construct_all(_, _, _, _, _, _)
construct_all(names, i, conn, ress, acc, calls) ==
    IF i > Len(names) THEN Return(<<acc>>, calls, NoSelf)
    ELSE LET r == SceneObject_init(names[i], conn, ress[i]) IN
         IF r.exc # "none" THEN Raise(r.exc, r.why, calls \o r.calls, NoSelf)
         ELSE construct_all(names, i + 1, conn, ress, Append(acc, r.ret[1]),
                            calls \o r.calls)

\* MotorArray.__init__ ; ret holds _motors
MotorArray_init(motor_names, conn, ress) ==
    IF motor_names # <<>>
    THEN construct_all(motor_names, 1, conn, ress, <<>>, <<>>)
    ELSE Return(<<<<>>>>, <<>>, NoSelf)

\* the loop of MotorArray.set_velocities from motor m on; ret holds the number
\* of motors whose set_velocity returned, self the motors of the array (ms
\* with every motor as its set_velocity left it)
RECURSIVE set_velocities_loop(_, _, _, _, _, _)
set_velocities_loop(ms, m, motor_velocities, conn, ress, calls) ==
    IF m > Len(ms) THEN Return(<<m - 1>>, calls, ms)
    ELSE IF m > Len(motor_velocities)
    THEN [Raise("IndexError", "index out of range", calls, ms)
            EXCEPT !.ret = <<m - 1>>]
    ELSE LET r == set_velocity(ms[m], motor_velocities[m], conn, ress[m]) IN
         IF r.exc # "none"
         THEN [Raise(r.exc, r.why, calls \o r.calls, [ms EXCEPT ![m] = r.self])
                 EXCEPT !.ret = <<m - 1>>]
         ELSE set_velocities_loop([ms EXCEPT ![m] = r.self], m + 1,
                                  motor_velocities, conn, ress,
                                  calls \o r.calls)

\* MotorArray.set_velocities checking the length of the velocity sequence
\* before it contacts any motor
set_velocities_length_first(ms, motor_velocities, conn, ress) ==
    IF Len(motor_velocities) < Len(ms)
    THEN [Raise("IndexError", "index out of range", <<>>, ms)
            EXCEPT !.ret = <<Len(motor_velocities)>>]
    ELSE set_velocities_loop(ms, 1, motor_velocities, conn, ress, <<>>)

\* MotorArray.set_velocities pairing motors and velocities as zip() does: the
\* motors beyond the velocity sequence are left alone
set_velocities_zip(ms, motor_velocities, conn, ress) ==
    LET k == Min(Len(ms), Len(motor_velocities))
        r == set_velocities_loop(SubSeq(ms, 1, k), 1, motor_velocities, conn,
                                 ress, <<>>)
    IN [r EXCEPT !.self = r.self \o SubSeq(ms, k + 1, Len(ms))]

\* MotorArray.set_velocities
set_velocities(ms, motor_velocities, conn, ress) ==
    set_velocities_loop(ms, 1, motor_velocities, conn, ress, <<>>)

\* ProximitySensorArray.__init__ ; ret holds _sensors
ProximitySensorArray_init(sensor_names, conn, ress) ==
    IF sensor_names # <<>>
    THEN construct_all(sensor_names, 1, conn, ress, <<>>, <<>>)
    ELSE Return(<<<<>>>>, <<>>, NoSelf)

\* the list comprehension of get_inv_distances from sensor i on; answers[i] is
\* the server's answer [res, detect, depth] to sensor i; self holds the
\* sensors of the array (ss with every sensor as its get_inv_distance left it)
RECURSIVE get_inv_distances_loop(_, _, _, _, _, _)
get_inv_distances_loop(ss, i, conn, answers, acc, calls) ==
    IF i > Len(ss) THEN Return(<<acc>>, calls, ss)
    ELSE LET r == get_inv_distance(ss[i], conn, answers[i].res,
                                   answers[i].detect, answers[i].depth) IN
         IF r.exc # "none"
         THEN Raise(r.exc, r.why, calls \o r.calls, [ss EXCEPT ![i] = r.self])
         ELSE get_inv_distances_loop([ss EXCEPT ![i] = r.self], i + 1, conn,
                                     answers, Append(acc, r.ret[1]),
                                     calls \o r.calls)

\* ProximitySensorArray.get_inv_distances
get_inv_distances(ss, conn, answers) ==
    get_inv_distances_loop(ss, 1, conn, answers, <<>>, <<>>)

\* ----------------------------------------------------------- Collection
\* Collection._get_handle
Collection_get_handle(cname, conn, res) ==
    IF cname = ""
    THEN Raise("RuntimeError", "missing name", <<>>, NoSelf)
    ELSE IF ~conn THEN Raise("ConnectionError", "not connected", <<>>, NoSelf)
    ELSE LET c == Call("simxGetCollectionHandle", -1, cname, -1, res) IN
         IF res # simx_return_ok
         THEN Raise("ServerError", "server", <<c>>, NoSelf)
         ELSE Return(<<SceneHandle(cname)>>, <<c>>, NoSelf)

\* Collection.__init__ ; ret holds the constructed wrapper
Collection_init(cname, conn, res) ==
    LET r == Collection_get_handle(cname, conn, res) IN
    IF r.exc # "none" THEN r
    ELSE LET self == [name |-> cname, handle |-> r.ret[1]] IN
         Return(<<self>>, r.calls, self)

\* [flat[p:p+3] for p in range(0, len(flat), 3)]
Triples(flat) ==
    LET starts == Range0(Len(flat), 3) IN
    [k \in 1..Len(starts) |-> Slice(flat, starts[k], starts[k] + 3)]

\* Collection.get_names
get_names(c, conn, res, names) ==
    IF ~conn THEN Raise("ConnectionError", "not connected", <<>>, c)
    ELSE Checked(Call("simxGetObjectGroupData", c.handle, "", 0, res),
                 <<names>>, c)

\* Collection.get_orientations, prec=None
get_orientations(c, conn, res, orientations) ==
    IF ~conn THEN Raise("ConnectionError", "not connected", <<>>, c)
    ELSE Checked(Call("simxGetObjectGroupData", c.handle, "", 5, res),
                 <<Triples(orientations)>>, c)

\* Collection.get_positions, prec=None
get_positions(c, conn, res, positions) ==
    IF ~conn THEN Raise("ConnectionError", "not connected", <<>>, c)
    ELSE Checked(Call("simxGetObjectGroupData", c.handle, "", 3, res),
                 <<Triples(positions)>>, c)

\* ------------------------------------------------------- inputs drawn
ScriptTypes == {"child", "customization", "main"}

\* integers given as `relative` / `parent`
RelInts == {SceneHandle(n) : n \in SceneNames}

Rels == {RelNone, RelOther} \cup {RelInt(v) : v \in RelInts}
                            \cup {RelObj(o) : o \in SceneIds}

\* payloads of the server's answers (whole numbers, which round() keeps)
Vector == <<1, 2, 3>>
Limits == <<-1, 1, -2, 2, -3, 3>>
Flat == <<1, 2, 3, 4, 5, 6>>
NewHandles == {SceneHandle("a") + 1}

\* the status codes of the six bounding box queries: all before the first
\* failure answer simx_return_ok, the queries after it are never issued
BBoxAnswers ==
    {[i \in 1..Len(BBOX_LIMITS) |-> IF i = k THEN c ELSE simx_return_ok] :
        k \in 1..Len(BBOX_LIMITS), c \in StatusCodes}

\* the server's answers to simxReadProximitySensor
SensorAnswers ==
    {[res |-> r, detect |-> d, depth |-> z] :
        r \in StatusCodes, d \in BOOLEAN, z \in {1, DepthUnits}}

\* the answers drawn for the sensors of an array
ArrayAnswers == {a \in SensorAnswers : a.depth = 1 /\ (a.detect <=> a.res = simx_return_ok)}
                \cup {[res |-> simx_return_ok, detect |-> FALSE, depth |-> 1]}

\* raw image buffers: n values in -128..127 that start at `start` and advance
\* by `step`, wrapping around
PixelStarts == {-128, -100, -2, 0, 100, 126}
Buffer(n, start, step) ==
    [i \in 1..n |-> ((start + 128 + (i - 1) * step) % 256) - 128]

\* sequences of length n over S
SeqsOf(S, n) == [1..n -> S]

\* the status codes the server can answer to the lookups of names, one each
LookupAnswers(names) ==
    {ress \in SeqsOf(StatusCodes, Len(names)) :
        \A i \in 1..Len(names) : ress[i] \in LookupCodes(names[i])}

\* the velocity sequence of length n
Velocities(n) == [i \in 1..n |-> 10 * i]

\* --------------------------------------------------------- the record
\* the arguments of a call: rel is `relative` / `parent`, flag is allow_in_sim
\* (grayscale for get_image), stype is script_type, n is the length of the
\* velocity sequence; input holds the names given to a constructor or the
\* payload the server answered
NoArgs == [rel |-> RelNone, flag |-> FALSE, stype |-> "", input |-> <<>>,
           n |-> 0]

\* last after method op was called on wrapper self (handle pre before the
\* call; gone: remove() had succeeded on it before the call) with arguments
\* args and ended with result r
Record(op, self, pre, args, r) ==
    [op |-> op, self |-> self, pre |-> pre, gone |-> self \in removed,
     args |-> args,
     exc |-> r.exc, why |-> r.why, calls |-> r.calls, ret |-> r.ret]

NoCall == Record("none", 0, -1, NoArgs, Return(<<>>, <<>>, NoSelf))

\* the wrappers after a method of wrapper o left it as self
SetSelf(o, self) ==
    /\ objs' = IF o \in DOMAIN objs THEN [objs EXCEPT ![o] = self] ELSE objs
    /\ motors' = IF o \in MotorIds THEN [motors EXCEPT ![o - 10] = self]
                 ELSE motors
    /\ sensors' = IF o \in SensorIds THEN [sensors EXCEPT ![o - 20] = self]
                  ELSE sensors

\* the program is between two calls: the result of the latest call has been
\* taken by the caller
Idle == last.op = "none"

\* method op of wrapper o ended with result r
Called(op, o, args, r) ==
    /\ SetSelf(o, r.self)
    /\ last' = Record(op, o, W(o).handle, args, r)
    /\ UNCHANGED <<connected, sim_started, coll, removed>>

Init ==
    /\ connected = FALSE
    /\ sim_started = FALSE
    /\ objs = <<>>
    /\ motors = <<>>
    /\ sensors = <<>>
    /\ coll = <<>>
    /\ removed = {}
    /\ last = NoCall

\* ---------------------------------------------------------- environment
Connect ==
    /\ Idle /\ ~connected
    /\ connected' = TRUE
    /\ UNCHANGED <<sim_started, objs, motors, sensors, coll, removed, last>>

Disconnect ==
    /\ Idle /\ connected
    /\ connected' = FALSE
    /\ UNCHANGED <<sim_started, objs, motors, sensors, coll, removed, last>>

StartSim ==
    /\ Idle /\ ~sim_started
    /\ sim_started' = TRUE
    /\ UNCHANGED <<connected, objs, motors, sensors, coll, removed, last>>

StopSim ==
    /\ Idle /\ sim_started
    /\ sim_started' = FALSE
    /\ UNCHANGED <<connected, objs, motors, sensors, coll, removed, last>>

\* ----------------------------------------------------------- SceneObject
\* SceneObject(name), Dummy(name), Motor(name), ProximitySensor(name),
\* VisionSensor(name): the class is the one of the slot o
Construct ==
    /\ Idle
    /\ NumWrappers < MaxWrappers
    /\ \E o \in ObjIds \ DOMAIN objs, nm \in Names :
       \E res \in LookupCodes(nm) :
           LET r == SceneObject_init(nm, connected, res) IN
           /\ objs' = IF r.exc = "none"
                      THEN [x \in DOMAIN objs \cup {o} |->
                              IF x = o THEN r.ret[1] ELSE objs[x]]
                      ELSE objs
           /\ last' = Record("init", o, -1, [NoArgs EXCEPT !.input = <<nm>>],
                             [r EXCEPT !.ret = <<>>])
           /\ UNCHANGED <<connected, sim_started, motors, sensors, coll,
                          removed>>

Handle ==
    /\ Idle
    /\ \E o \in SceneIds :
           Called("handle", o, NoArgs, SceneObject_handle(W(o)))

Name ==
    /\ Idle
    /\ \E o \in SceneIds :
           Called("name", o, NoArgs, SceneObject_name(W(o)))

CallScriptFunc ==
    /\ Idle
    /\ \E o \in SceneIds, st \in ScriptTypes, res \in StatusCodes :
           Called("call_script_func", o, [NoArgs EXCEPT !.stype = st],
                  call_script_func(W(o), st, connected, res))

CopyPaste ==
    /\ Idle
    /\ \E o \in SceneIds, res \in StatusCodes, newh \in NewHandles :
           Called("copy_paste", o, NoArgs,
                  copy_paste(W(o), connected, res, newh))

GetBBoxLimits ==
    /\ Idle
    /\ \E o \in SceneIds, ress \in BBoxAnswers :
           Called("get_bbox_limits", o, NoArgs,
                  get_bbox_limits(W(o), connected, ress, Limits))

GetOrientation ==
    /\ Idle
    /\ \E o \in SceneIds, rel \in Rels, res \in StatusCodes :
           Called("get_orientation", o, [NoArgs EXCEPT !.rel = rel],
                  get_orientation(W(o), rel, connected, res, Vector))

SetOrientation ==
    /\ Idle
    /\ \E o \in SceneIds, rel \in Rels, allow \in BOOLEAN, res \in StatusCodes :
           Called("set_orientation", o,
                  [NoArgs EXCEPT !.rel = rel, !.flag = allow],
                  set_orientation(W(o), rel, allow, connected, sim_started, res))

GetParentHandle ==
    /\ Idle
    /\ \E o \in SceneIds, res \in StatusCodes, ph \in RelInts :
           Called("get_parent_handle", o, NoArgs,
                  get_parent_handle(W(o), connected, res, ph))

SetParent ==
    /\ Idle
    /\ \E o \in SceneIds, rel \in Rels, res \in StatusCodes :
           Called("set_parent", o, [NoArgs EXCEPT !.rel = rel],
                  set_parent(W(o), rel, connected, res))

GetPosition ==
    /\ Idle
    /\ \E o \in SceneIds, rel \in Rels, res \in StatusCodes :
           Called("get_position", o, [NoArgs EXCEPT !.rel = rel],
                  get_position(W(o), rel, connected, res, Vector))

SetPosition ==
    /\ Idle
    /\ \E o \in SceneIds, rel \in Rels, allow \in BOOLEAN, res \in StatusCodes :
           Called("set_position", o,
                  [NoArgs EXCEPT !.rel = rel, !.flag = allow],
                  set_position(W(o), rel, allow, connected, sim_started, res))

Remove ==
    /\ Idle
    /\ \E o \in SceneIds, res \in StatusCodes :
           LET r == remove(W(o), connected, res) IN
           /\ SetSelf(o, r.self)
           /\ removed' = IF r.exc = "none" THEN removed \cup {o} ELSE removed
           /\ last' = Record("remove", o, W(o).handle, NoArgs, r)
           /\ UNCHANGED <<connected, sim_started, coll>>

\* ------------------------------------------------------ specializations
SetVelocity ==
    /\ Idle
    /\ \E o \in SceneIds, res \in StatusCodes :
           /\ IsMotor(o)
           /\ Called("set_velocity", o, NoArgs,
                     set_velocity(W(o), Velocities(1)[1], connected, res))

GetInvDistance ==
    /\ Idle
    /\ \E o \in SceneIds, a \in SensorAnswers :
           /\ IsProximitySensor(o)
           /\ Called("get_inv_distance", o,
                     [NoArgs EXCEPT !.input = <<a.detect, a.depth>>],
                     get_inv_distance(W(o), connected, a.res, a.detect, a.depth))

\* VisionSensor.get_image with the server answering a width x height image
\* whose raw buffer is Buffer(_, start, step)
GetImage(width, height, start, step) ==
    /\ Idle
    /\ \E o \in SceneIds, grayscale \in BOOLEAN, res \in StatusCodes :
           /\ IsVisionSensor(o)
           /\ Called("get_image", o,
                     [NoArgs EXCEPT !.flag = grayscale,
                                    !.input = <<width, height, start, step>>],
                     get_image(W(o), grayscale, connected, res,
                               <<width, height>>,
                               Buffer(width * height * (IF grayscale THEN 1 ELSE 3),
                                      start, step)))

GetImageSample == GetImage(MaxWidth, MaxHeight, -2, 1)

\* get_image over every resolution and raw buffer of the bounds
GetImageAny ==
    \E width \in 1..MaxWidth, height \in 1..MaxHeight :
    \E start \in PixelStarts, step \in 1..MaxStep :
        GetImage(width, height, start, step)

\* --------------------------------------------------------------- arrays
MotorArrayNew ==
    /\ Idle
    /\ motors = <<>>
    /\ \E n \in 0..(MaxWrappers - NumWrappers) :
       \E names \in SeqsOf(Names, n) :
       \E ress \in LookupAnswers(names) :
           LET r == MotorArray_init(names, connected, ress) IN
           /\ motors' = IF r.exc = "none" THEN r.ret[1] ELSE motors
           /\ last' = Record("MotorArray", 0, -1,
                             [NoArgs EXCEPT !.input = names],
                             [r EXCEPT !.ret = <<>>])
           /\ UNCHANGED <<connected, sim_started, objs, sensors, coll, removed>>

SetVelocities ==
    /\ Idle
    /\ \E n \in 0..MaxVelocities :
       \E ress \in SeqsOf(StatusCodes, Len(motors)) :
           LET r == set_velocities(motors, Velocities(n), connected, ress) IN
           /\ motors' = r.self
           /\ last' = Record("set_velocities", 0, -1, [NoArgs EXCEPT !.n = n],
                             r)
           /\ UNCHANGED <<connected, sim_started, objs, sensors, coll,
                          removed>>

ProximitySensorArrayNew ==
    /\ Idle
    /\ sensors = <<>>
    /\ \E n \in 0..(MaxWrappers - NumWrappers) :
       \E names \in SeqsOf(Names, n) :
       \E ress \in LookupAnswers(names) :
           LET r == ProximitySensorArray_init(names, connected, ress) IN
           /\ sensors' = IF r.exc = "none" THEN r.ret[1] ELSE sensors
           /\ last' = Record("ProximitySensorArray", 0, -1,
                             [NoArgs EXCEPT !.input = names],
                             [r EXCEPT !.ret = <<>>])
           /\ UNCHANGED <<connected, sim_started, objs, motors, coll, removed>>

GetInvDistances ==
    /\ Idle
    /\ \E answers \in SeqsOf(ArrayAnswers, Len(sensors)) :
           LET r == get_inv_distances(sensors, connected, answers) IN
           /\ sensors' = r.self
           /\ last' = Record("get_inv_distances", 0, -1, NoArgs, r)
           /\ UNCHANGED <<connected, sim_started, objs, motors, coll, removed>>

\* ----------------------------------------------------------- Collection
CollectionNew ==
    /\ Idle
    /\ coll = <<>>
    /\ NumWrappers < MaxWrappers
    /\ \E nm \in Names :
       \E res \in LookupCodes(nm) :
           LET r == Collection_init(nm, connected, res) IN
           /\ coll' = IF r.exc = "none" THEN r.ret ELSE coll
           /\ last' = Record("Collection", 0, -1,
                             [NoArgs EXCEPT !.input = <<nm>>],
                             [r EXCEPT !.ret = <<>>])
           /\ UNCHANGED <<connected, sim_started, objs, motors, sensors,
                          removed>>

CollectionCalled(op, r) ==
    /\ coll' = <<r.self>>
    /\ last' = Record(op, 0, coll[1].handle, NoArgs, r)
    /\ UNCHANGED <<connected, sim_started, objs, motors, sensors, removed>>

GetNames ==
    /\ Idle
    /\ coll # <<>>
    /\ \E res \in StatusCodes :
           CollectionCalled("get_names",
                  get_names(coll[1], connected, res, <<"a", "b">>))

GetOrientations ==
    /\ Idle
    /\ coll # <<>>
    /\ \E res \in StatusCodes :
           CollectionCalled("get_orientations",
                  get_orientations(coll[1], connected, res, Flat))

GetPositions ==
    /\ Idle
    /\ coll # <<>>
    /\ \E res \in StatusCodes :
           CollectionCalled("get_positions",
                  get_positions(coll[1], connected, res, Flat))

\* the caller takes the result of the latest call (its value or its exception)
\* and goes on
Continue ==
    /\ ~Idle
    /\ last' = NoCall
    /\ UNCHANGED <<connected, sim_started, objs, motors, sensors, coll,
                   removed>>

Next ==
    \/ Continue
    \/ Connect \/ Disconnect \/ StartSim \/ StopSim
    \/ Construct \/ Handle \/ Name \/ CallScriptFunc \/ CopyPaste
    \/ GetBBoxLimits \/ GetOrientation \/ SetOrientation \/ GetParentHandle
    \/ SetParent \/ GetPosition \/ SetPosition \/ Remove
    \/ SetVelocity \/ GetInvDistance \/ GetImageSample
    \/ MotorArrayNew \/ SetVelocities
    \/ ProximitySensorArrayNew \/ GetInvDistances
    \/ CollectionNew \/ GetNames \/ GetOrientations \/ GetPositions

Spec == Init /\ [][Next]_vars

\* -------------------------------------------------- image specification
\* a connected program that holds one vision sensor and reads images
InitImage ==
    /\ connected = TRUE
    /\ sim_started = FALSE
    /\ objs = [o \in {o \in ObjIds : ClassOf(o) = "VisionSensor"} |->
                [name |-> "a", handle |-> SceneHandle("a")]]
    /\ motors = <<>>
    /\ sensors = <<>>
    /\ coll = <<>>
    /\ removed = {}
    /\ last = NoCall

NextImage == Continue \/ GetImageAny

SpecImage == InitImage /\ [][NextImage]_vars

\* =================================================================== claims
\* the handle-dependent members of SceneObject and its specializations
HandleOps ==
    {"handle", "name", "call_script_func", "copy_paste", "get_bbox_limits",
     "get_orientation", "set_orientation", "get_parent_handle", "set_parent",
     "get_position", "set_position", "set_velocity", "get_inv_distance",
     "get_image"}

RaisedRemoved == last.exc = "RuntimeError" /\ last.why = "object removed"

\* the remote calls of the latest call that carry the handle or the name of
\* the wrapper the method was called on (all but the simulation-state query)
TargetCalls == {i \in DOMAIN last.calls : last.calls[i].fn # "is_sim_started"}

\* the remote calls of the latest call that carry a `relative` / `parent` handle
RelFns == {"simxGetObjectPosition", "simxSetObjectPosition",
           "simxGetObjectOrientation", "simxSetObjectOrientation",
           "simxSetObjectParent"}
RelCalls == {i \in DOMAIN last.calls : last.calls[i].fn \in RelFns}

\* C1, as stated: after a successful remove(), every handle-dependent call, with
\* any arguments, raises the 'object removed' RuntimeError, and a second
\* remove() raises the 'already removed' RuntimeError.
C1_AsStated ==
    /\ (last.op \in HandleOps /\ last.gone) => RaisedRemoved
    /\ (last.op = "remove" /\ last.gone) =>
           (last.exc = "RuntimeError" /\ last.why = "already removed")

\* C1, amended: after a successful remove(), every handle-dependent call raises
\* the 'object removed' RuntimeError, whatever the connection and simulation
\* state - except call_script_func with a script type other than 'child' /
\* 'customization', which raises ValueError before the removed state is
\* looked at - and a second remove() raises 'already removed'.
C1_RemovedRaises ==
    /\ (/\ last.op \in HandleOps
        /\ last.gone
        /\ ~(last.op = "call_script_func"
             /\ last.args.stype \notin ASSOC_SCRIPT_TYPES))
       => RaisedRemoved
    /\ (/\ last.op = "call_script_func"
        /\ last.gone
        /\ last.args.stype \notin ASSOC_SCRIPT_TYPES)
       => last.exc = "ValueError"
    /\ (last.op = "remove" /\ last.gone) =>
           (last.exc = "RuntimeError" /\ last.why = "already removed")

\* C1 witness: a script function of a supported type is called on a removed
\* wrapper while the program is connected.
C1_Witness ==
    /\ last.op = "call_script_func"
    /\ last.gone
    /\ last.args.stype = "child"
    /\ connected
    /\ RaisedRemoved

\* C2: once remove() has succeeded on a wrapper, its handle stays -2, no later
\* call on it issues a remote call that carries its handle or name, no call
\* that is given it as `relative` / `parent` issues the remote call that would
\* carry its handle, and the array operations do not reach the remote call of
\* a removed element.
C2_NoCallOnRemoved ==
    /\ \A o \in removed : o \in SceneIds /\ W(o).handle = -2
    /\ last.gone => TargetCalls = {}
    /\ (last.args.rel.t = "obj" /\ last.args.rel.v \in removed)
           => RelCalls = {}
    /\ last.op = "set_velocities" =>
           \A i \in 1..Len(motors) :
               MotorId(i) \in removed => Len(last.calls) < i
    /\ last.op = "get_inv_distances" =>
           \A i \in 1..Len(sensors) :
               SensorId(i) \in removed => Len(last.calls) < i

\* C2 witness: a live, connected wrapper is asked to set its position relative
\* to a removed wrapper, with the simulation check switched off.
C2_Witness ==
    /\ last.op = "set_position"
    /\ ~last.gone
    /\ connected
    /\ last.args.flag
    /\ last.args.rel.t = "obj"
    /\ last.args.rel.v \in removed
    /\ last.args.rel.v # last.self
    /\ last.exc = "RuntimeError"

SetFns == {"simxSetObjectPosition", "simxSetObjectOrientation"}

\* `relative` resolves to a handle: None, an integer, or a wrapper whose handle
\* is set and not removed
Resolves(rel) ==
    \/ rel.t \in {"none", "int"}
    \/ rel.t = "obj" /\ W(rel.v).handle >= 0

\* C3: set_position / set_orientation on a non-removed, connected wrapper:
\* without allow_in_sim and with the simulation running the call raises
\* SimulationError and issues no remote set call; with allow_in_sim the
\* simulation state is not queried, SimulationError is not raised, and the
\* remote set call is issued whenever `relative` resolves to a handle, in
\* either simulation state.
C3_SimulationGate ==
    (last.op \in {"set_position", "set_orientation"} /\ ~last.gone
        /\ connected)
    => /\ (sim_started /\ ~last.args.flag) =>
              /\ last.exc = "SimulationError"
              /\ \A i \in DOMAIN last.calls : last.calls[i].fn \notin SetFns
       /\ last.args.flag =>
              /\ \A i \in DOMAIN last.calls :
                     last.calls[i].fn # "is_sim_started"
              /\ last.exc # "SimulationError"
              /\ Resolves(last.args.rel) =>
                     /\ Len(last.calls) = 1
                     /\ last.calls[1].fn \in SetFns
                     /\ last.calls[1].h = last.pre

\* C3 witness: with the simulation running, set_position with allow_in_sim
\* goes through.
C3_Witness ==
    /\ last.op = "set_position"
    /\ connected /\ sim_started
    /\ last.args.flag
    /\ last.exc = "none"
    /\ Len(last.calls) = 1

\* the handle an element constructed with name nm holds
HandleFor(nm) == IF nm = "" THEN -1 ELSE SceneHandle(nm)

\* the non-empty names among names, in order
RECURSIVE Named(_)
Named(names) ==
    IF names = <<>> THEN <<>>
    ELSE IF Head(names) = "" THEN Named(Tail(names))
    ELSE <<Head(names)>> \o Named(Tail(names))

\* C4, as stated: whatever the name argument, constructing a wrapper looks the
\* handle up on the server, and a wrapper that is constructed holds the
\* handle the server returned, never an unset one.
C4_AsStated ==
    /\ (last.op = "init" /\ connected) =>
           /\ Len(last.calls) = 1
           /\ last.exc = "none" => objs[last.self].handle >= 0
    /\ (last.op = "Collection" /\ connected) => Len(last.calls) = 1
    /\ (last.op = "MotorArray" /\ connected /\ last.exc = "none") =>
           \A i \in 1..Len(motors) : motors[i].handle >= 0
    /\ (last.op = "ProximitySensorArray" /\ connected /\ last.exc = "none")
           => \A i \in 1..Len(sensors) : sensors[i].handle >= 0

\* the array elems was just constructed from the names in last.args.input
ArrayConstructed(elems) ==
    LET names == last.args.input IN
    /\ (\E i \in 1..Len(names) : names[i] \notin SceneNames \cup {""})
           => last.exc = "ServerError"
    /\ \A i \in 1..Len(last.calls) :
           /\ last.calls[i].fn = "simxGetObjectHandle"
           /\ i <= Len(Named(names))
           /\ last.calls[i].name = Named(names)[i]
    /\ last.exc = "none" =>
           /\ Len(last.calls) = Len(Named(names))
           /\ \A i \in 1..Len(last.calls) :
                  last.calls[i].res = simx_return_ok
           /\ Len(elems) = Len(names)
           /\ \A i \in 1..Len(names) : elems[i].handle = HandleFor(names[i])
    /\ last.exc # "none" => elems = <<>>

\* C4, amended: constructing a wrapper with a non-empty name, while connected,
\* looks the handle up on the server; a name the server does not hold raises
\* ServerError and leaves no wrapper, and a constructed wrapper holds the
\* handle the server returned. With an empty name no lookup is made: a
\* SceneObject (specialization, array element) is constructed with the unset
\* handle -1, and Collection raises RuntimeError.
C4_Lookup ==
    /\ (last.op = "init" /\ connected) =>
           LET nm == last.args.input[1] IN
           /\ nm # "" =>
                  /\ Len(last.calls) = 1
                  /\ last.calls[1].fn = "simxGetObjectHandle"
                  /\ last.calls[1].name = nm
                  /\ nm \notin SceneNames => last.exc = "ServerError"
                  /\ last.exc = "none" =>
                         /\ last.calls[1].res = simx_return_ok
                         /\ last.self \in DOMAIN objs
                         /\ objs[last.self] =
                                [name |-> nm, handle |-> SceneHandle(nm)]
                         /\ objs[last.self].handle >= 0
                  /\ last.exc # "none" => last.self \notin DOMAIN objs
           /\ nm = "" =>
                  /\ last.calls = <<>>
                  /\ last.exc = "none"
                  /\ objs[last.self].handle = -1
    /\ (last.op = "Collection" /\ connected) =>
           LET nm == last.args.input[1] IN
           /\ nm # "" =>
                  /\ Len(last.calls) = 1
                  /\ last.calls[1].fn = "simxGetCollectionHandle"
                  /\ last.calls[1].name = nm
                  /\ nm \notin SceneNames => last.exc = "ServerError"
                  /\ last.exc = "none" =>
                         /\ last.calls[1].res = simx_return_ok
                         /\ coll = <<[name |-> nm, handle |-> SceneHandle(nm)]>>
                  /\ last.exc # "none" => coll = <<>>
           /\ nm = "" =>
                  /\ last.calls = <<>>
                  /\ last.exc = "RuntimeError"
                  /\ coll = <<>>
    /\ (last.op = "MotorArray" /\ connected) => ArrayConstructed(motors)
    /\ (last.op = "ProximitySensorArray" /\ connected)
           => ArrayConstructed(sensors)

\* C4 witness: a wrapper is constructed, while connected, with a name the
\* scene does not hold.
C4_Witness ==
    /\ last.op = "init"
    /\ connected
    /\ last.args.input = <<"ghost">>
    /\ last.exc = "ServerError"
    /\ last.self \notin DOMAIN objs

ProxRead(c) == c.fn = "simxReadProximitySensor"

\* C5, as stated: an operation that issues a remote call returns only if the
\* status code is 0; any other status code makes it raise ServerError.
C5_AsStated ==
    \A i \in DOMAIN last.calls :
        last.calls[i].res # simx_return_ok => last.exc = "ServerError"

\* C5, amended: a remote call that answers a status code other than 0 ends the
\* operation with ServerError, and ServerError is raised for no other
\* reason - except the sensor reading of get_inv_distance (and of
\* get_inv_distances), where the 'no value' status code 1 is taken as the
\* reading 0.0 and raises nothing.
C5_StatusCodes ==
    /\ \A i \in DOMAIN last.calls :
           (/\ last.calls[i].res # simx_return_ok
            /\ ~(ProxRead(last.calls[i])
                 /\ last.calls[i].res = simx_return_novalue_flag))
           => (last.exc = "ServerError" /\ i = Len(last.calls))
    /\ last.exc = "ServerError" =>
           /\ last.calls # <<>>
           /\ last.calls[Len(last.calls)].res # simx_return_ok
    /\ (/\ last.op = "get_inv_distance"
        /\ last.calls # <<>>
        /\ last.calls[1].res = simx_return_novalue_flag)
       => (last.exc = "none" /\ last.ret = <<0>>)

\* C5 witness: the third bounding box query answers a status code other than
\* 0 and get_bbox_limits raises ServerError.
C5_Witness ==
    /\ last.op = "get_bbox_limits"
    /\ Len(last.calls) = 3
    /\ last.calls[3].res = MaxStatus
    /\ last.exc = "ServerError"

RaisedNotConnected == last.exc = "ConnectionError"

\* C6: while client_id is None no operation issues a remote call, the
\* simulation-state query included, and every operation that would contact
\* the server raises ConnectionError: construction with a name, every method
\* of a non-removed SceneObject / Motor / ProximitySensor / VisionSensor that
\* reaches a remote call (call_script_func with a supported script type), and
\* every Collection method.
C6_NotConnected ==
    (~connected /\ ~Idle) =>
        /\ last.calls = <<>>
        /\ (last.op \in {"init", "Collection"} /\ last.args.input[1] # "")
               => RaisedNotConnected
        /\ (/\ last.op \in (HandleOps \ {"handle", "name"}) \cup {"remove"}
            /\ ~last.gone
            /\ last.op = "call_script_func"
                   => last.args.stype \in ASSOC_SCRIPT_TYPES)
               => RaisedNotConnected
        /\ last.op \in {"get_names", "get_orientations", "get_positions"}
               => RaisedNotConnected

\* C6 witness: set_orientation without allow_in_sim and with an unsupported
\* `relative`, while the simulation runs and the program is not connected.
C6_Witness ==
    /\ last.op = "set_orientation"
    /\ ~connected /\ sim_started
    /\ ~last.gone
    /\ ~last.args.flag
    /\ last.args.rel = RelOther
    /\ RaisedNotConnected

\* C7: get_inv_distance on a non-removed, connected sensor returns 0.0 when
\* the server answers success without detection and when it answers the
\* 'no value' status code, whatever the rest of the answer; no error is
\* raised in either case.
C7_NoDetectionNoValue ==
    (/\ last.op = "get_inv_distance"
     /\ ~last.gone
     /\ connected
     /\ \/ (last.calls[1].res = simx_return_ok /\ ~last.args.input[1])
        \/ last.calls[1].res = simx_return_novalue_flag)
    => (last.exc = "none" /\ last.ret = <<0>>)

\* C7 witness: the server answers 'no value' together with a detection flag.
C7_Witness ==
    /\ last.op = "get_inv_distance"
    /\ last.calls # <<>>
    /\ last.calls[1].res = simx_return_novalue_flag
    /\ last.args.input = <<TRUE, 1>>
    /\ last.ret = <<0>>

\* C8: set_velocities with fewer velocities than motors raises the index
\* error as soon as the velocities run out, provided the remote velocity call
\* of every motor before the missing index was made and succeeded.
C8_IndexError ==
    (/\ last.op = "set_velocities"
     /\ last.args.n < Len(motors)
     /\ Len(last.calls) = last.args.n
     /\ \A i \in 1..Len(last.calls) : last.calls[i].res = simx_return_ok)
    => (last.exc = "IndexError" /\ last.ret = <<last.args.n>>)

\* C8 witness: an array of at least two motors is given one velocity less
\* than it has motors; the velocities given reach their motors.
C8_Witness ==
    /\ last.op = "set_velocities"
    /\ Len(motors) >= 2
    /\ last.args.n = Len(motors) - 1
    /\ Len(last.calls) = last.args.n
    /\ last.exc = "IndexError"

\* the unsigned byte a raw value stands for
Unsigned(v) == IF v < 0 THEN v + 256 ELSE v

\* C9: get_image(grayscale=False) of a width x height image returns height
\* rows of width pixels; the pixel in row r, column c is the triplet of the raw
\* pixel in row height-1-r, column c, each component mapped into 0..255.
C9_ImageLayout ==
    (last.op = "get_image" /\ last.exc = "none" /\ ~last.args.flag) =>
        LET width == last.args.input[1]
            height == last.args.input[2]
            raw == Buffer(3 * width * height, last.args.input[3],
                          last.args.input[4])
            img == last.ret[1]
        IN /\ Len(img) = height
           /\ \A r \in 1..height :
                  /\ Len(img[r]) = width
                  /\ \A c \in 1..width :
                         LET k == 3 * ((height - r) * width + (c - 1)) IN
                         /\ img[r][c] = <<Unsigned(raw[k + 1]),
                                          Unsigned(raw[k + 2]),
                                          Unsigned(raw[k + 3])>>
                         /\ \A j \in 1..3 : img[r][c][j] \in 0..255

\* C9 witness: an image of several rows and columns whose first output pixel
\* comes from a negative raw value.
C9_Witness ==
    /\ last.op = "get_image"
    /\ last.exc = "none"
    /\ ~last.args.flag
    /\ last.args.input[1] >= 2
    /\ last.args.input[2] >= 2
    /\ last.ret[1][1][1][1] > 127
    /\ last.ret[1][1] # last.ret[1][2]

RelOps == {"get_position", "set_position", "get_orientation",
           "set_orientation", "set_parent"}

\* the latest call got as far as resolving its `relative` / `parent` argument
RelReached ==
    /\ last.op \in RelOps
    /\ ~last.gone
    /\ connected
    /\ ~(last.op \in {"set_position", "set_orientation"}
         /\ ~last.args.flag /\ sim_started)

BadScriptType ==
    last.op = "call_script_func" /\ last.args.stype \notin ASSOC_SCRIPT_TYPES

\* C10, as stated: a missing name, a removed handle, a wrapper with an unset
\* handle given as `relative` / `parent`, an unsupported script type and an
\* unsupported type of `relative` / `parent` are all reported as RuntimeError.
C10_AsStated ==
    /\ (last.op = "Collection" /\ last.args.input = <<"">>)
           => last.exc = "RuntimeError"
    /\ (last.op \in HandleOps \cup {"remove"} /\ last.gone /\ ~BadScriptType)
           => last.exc = "RuntimeError"
    /\ (RelReached /\ last.args.rel.t = "obj"
            /\ W(last.args.rel.v).handle < 0) => last.exc = "RuntimeError"
    /\ BadScriptType => last.exc = "RuntimeError"
    /\ (RelReached /\ last.args.rel = RelOther) => last.exc = "RuntimeError"

\* C10, amended: a missing Collection name and a removed handle (of the
\* wrapper called, or of the wrapper given as `relative` / `parent`) are
\* reported as RuntimeError; a wrapper with an unset handle given as
\* `relative` / `parent` and an unsupported script type are reported as
\* ValueError; an unsupported type of `relative` / `parent` is reported as
\* TypeError.
C10_LocalErrors ==
    /\ (last.op = "Collection" /\ last.args.input = <<"">>)
           => (last.exc = "RuntimeError" /\ last.why = "missing name")
    /\ (last.op \in HandleOps \cup {"remove"} /\ last.gone /\ ~BadScriptType)
           => last.exc = "RuntimeError"
    /\ (RelReached /\ last.args.rel.t = "obj"
            /\ W(last.args.rel.v).handle = -2)
           => (last.exc = "RuntimeError" /\ last.why = "object removed")
    /\ (RelReached /\ last.args.rel.t = "obj"
            /\ W(last.args.rel.v).handle = -1) => last.exc = "ValueError"
    /\ BadScriptType => last.exc = "ValueError"
    /\ (RelReached /\ last.args.rel = RelOther) => last.exc = "TypeError"

\* C10 witness: a live, connected wrapper is asked for its position relative
\* to a wrapper that was constructed without a name.
C10_Witness ==
    /\ last.op = "get_position"
    /\ RelReached
    /\ last.args.rel.t = "obj"
    /\ W(last.args.rel.v).handle = -1
    /\ last.pre >= 0
    /\ last.exc = "ValueError"

\* ------------------------------------------------------------------ C11
\* the states of a wrapper, by its stored handle
Live(w) == w.handle >= 0
Removed(w) == w.handle = -2
Unset(w) == w.handle = -1

\* this step leaves wrapper o Removed and o was not Removed before it
EntersRemoved(o) ==
    /\ Removed(W(o))'
    /\ ~(o \in SceneIds /\ Removed(W(o)))

\* this step leaves every wrapper the program holds as it is
SameWrappers == UNCHANGED <<objs, motors, sensors>>

\* this step is a remove() of wrapper o that returned
RemoveSucceeded(o) ==
    /\ last'.op = "remove"
    /\ last'.self = o
    /\ last'.exc = "none"

\* C11 as stated: every constructed SceneObject is Live or Removed, and it
\* becomes Removed only by a successful remove() called while it was Live
C11_AsStated ==
    /\ [](\A o \in SceneIds : Live(W(o)) \/ Removed(W(o)))
    /\ [][SameWrappers \/
           \A o \in SceneIds' :
               EntersRemoved(o) =>
                   o \in SceneIds /\ Live(W(o)) /\ RemoveSucceeded(o)]_vars

\* C11 (amended): every constructed SceneObject is Live, Removed or Unset
\* (handle -1), Unset only when it was constructed without a name, and it
\* becomes Removed only by a successful remove() called while it was Live or
\* Unset
C11_Lifecycle ==
    /\ [](\A o \in SceneIds :
             /\ Live(W(o)) \/ Removed(W(o)) \/ Unset(W(o))
             /\ Unset(W(o)) => W(o).name = "_Unnamed_")
    /\ [][SameWrappers \/
           \A o \in SceneIds' :
               EntersRemoved(o) =>
                   /\ o \in SceneIds
                   /\ Live(W(o)) \/ Unset(W(o))
                   /\ RemoveSucceeded(o)]_vars

\* remove() returned on a wrapper that was constructed without a name and
\* was Unset, and left it Removed
C11_Witness ==
    /\ last.op = "remove"
    /\ last.exc = "none"
    /\ last.pre = -1
    /\ last.self \in SceneIds
    /\ W(last.self).name = "_Unnamed_"
    /\ Removed(W(last.self))

\* ------------------------------------------------------------------ C12
\* the latest call was a remove() that failed on a missing connection or on a
\* non-zero status code
RemoveFailed ==
    /\ last.op = "remove"
    /\ last.exc \in {"ConnectionError", "ServerError"}

\* C12: no step other than a remove() that returned changes the stored handle
\* or name of a wrapper (every call that raises, a failed remove() included,
\* and every getter or setter that returns leaves both as they were, and no
\* wrapper is dropped); after a remove() that failed on a missing connection
\* or a non-zero status code the object has the handle it had, is Live if it
\* was Live, and a further remove() is not refused: it returns as soon as the
\* connection is there and the server answers ok
C12_Frame ==
    /\ [](RemoveFailed =>
             /\ W(last.self).handle = last.pre
             /\ last.pre >= 0 => Live(W(last.self))
             /\ remove(W(last.self), TRUE, simx_return_ok).exc = "none")
    /\ [][SameWrappers \/
           \A o \in SceneIds :
               /\ o \in SceneIds'
               /\ (W(o)' # W(o)) => RemoveSucceeded(o)]_vars

\* remove() failed on a non-zero status code on a Live wrapper, which is
\* still Live
C12_Witness ==
    /\ RemoveFailed
    /\ last.exc = "ServerError"
    /\ last.pre >= 0
    /\ Live(W(last.self))

\* ------------------------------------------------------------------ C13
\* the remote call c is the velocity command of motor m (counted from 1) of
\* the array, carrying the m-th of the n velocities given
CommandOf(c, m, n) ==
    /\ c.fn = "simxSetJointTargetVelocity"
    /\ m <= n
    /\ c.h = motors[m].handle
    /\ c.rel = Velocities(n)[m]

\* C13: set_velocities commands the motors one at a time in increasing index
\* order and stops at the first failure, without rollback. With k the index
\* (from 0) at which it failed: the remote calls it issued are the commands
\* of motors 0..k-1, in this order, each answered ok, followed by the refused
\* command of motor k when the failure is a non-zero status code and by
\* nothing otherwise; no motor beyond k is contacted and nothing is undone.
\* It fails only for a velocity sequence that ends at k, a removed motor k, a
\* missing connection or a non-zero status code; a velocity sequence longer
\* than the array never makes it fail, and its surplus is never sent
C13_Sequential ==
    last.op = "set_velocities" =>
        LET k == last.ret[1]
            n == last.args.n
            calls == last.calls
        IN /\ k \in 0..Len(motors)
           /\ Len(calls) <= Len(motors)
           /\ \A j \in 1..Len(calls) : CommandOf(calls[j], j, n)
           /\ k <= Len(calls)
           /\ \A j \in 1..k : calls[j].res = simx_return_ok
           /\ last.exc = "none" => k = Len(motors) /\ Len(calls) = k
           /\ last.exc # "none" =>
                  /\ k < Len(motors)
                  /\ \/ /\ last.exc = "IndexError"
                        /\ n = k
                        /\ Len(calls) = k
                     \/ /\ last.exc = "RuntimeError"
                        /\ Removed(motors[k + 1])
                        /\ Len(calls) = k
                     \/ /\ last.exc = "ConnectionError"
                        /\ ~connected
                        /\ Len(calls) = k
                     \/ /\ last.exc = "ServerError"
                        /\ Len(calls) = k + 1
                        /\ calls[k + 1].res # simx_return_ok
           /\ n >= Len(motors) => last.exc # "IndexError"

\* set_velocities failed at the second motor on a non-zero status code after
\* the first motor had received its velocity
C13_Witness ==
    /\ last.op = "set_velocities"
    /\ last.exc = "ServerError"
    /\ last.ret[1] = 1
    /\ Len(last.calls) = 2
    /\ last.calls[1].res = simx_return_ok
    /\ last.calls[1].rel = Velocities(last.args.n)[1]

====
